---- MODULE Spec2Model ----
(***************************************************************************)
(* The Oracle agent of zudduz/visions-vertex.                              *)
(*                                                                         *)
(*  - AgentEngineApp.query (src/app/agent_engine_app.py): the blocking     *)
(*    bridge that runs the asynchronous pipeline on a worker thread with   *)
(*    its own event loop, inside a session it creates and deletes.         *)
(*  - root_agent (src/app/agent.py): the sequence text_generator,          *)
(*    image_generator, vision_formatter over one session state, with the   *)
(*    tools get_vision_themes and generate_vision_image.                   *)
(*  - initialize_gcs (src/app/agent.py): bucket provisioning at import.    *)
(*                                                                         *)
(* Spec runs query invocations one after another (a blocking caller);      *)
(* GcsSpec runs initialize_gcs in several processes that interleave.       *)
(***************************************************************************)
EXTENDS Integers, Sequences, FiniteSets, TLC

\* ------------------------------------------------------------------ bounds
NumInvocations == 2     \* query invocations made by the caller
MaxToolCalls == 1       \* function calls one LLM agent makes in one run
NumProcesses == 2       \* processes importing app.agent
MaxInitCalls == 2       \* initialize_gcs calls a process makes in sequence
MaxOps == 2             \* operation names the parent class lists under one mode
MaxEvents == 2          \* events an arbitrary runner stream yields in one run
MaxParts == 2           \* parts in the content of one such event

Invocations == 1..NumInvocations
Processes == 1..NumProcesses

\* ------------------------------------------------------------ Python values
\* A str is the sequence of its pieces, "" is <<>>, + is \o. None where a str
\* may stand is NoneStr; None where an exception may stand is NoExc.
EmptyStr == <<>>
NoneStr == <<"None">>
Str(piece) == <<piece>>

\* bool(x) of an Optional[str]
Truthy(text) == text # NoneStr /\ text # EmptyStr

\* Exceptions: cls is the class the except clauses test, at is the call that
\* raised. asyncio.CancelledError derives from BaseException, not Exception.
NoExc == [cls |-> "None", at |-> "None"]
Exc(cls, at) == [cls |-> cls, at |-> at]
IsException(e) == e.cls = "Exception"

\* What an awaited call of the async run can raise.
AwaitRaises(at) == {Exc("Exception", at), Exc("CancelledError", at)}

\* ------------------------------------------------------- src/app/agent.py
THEMES == <<"Chaotic", "Nonsensical", "Mundane", "Vaguely religious",
           "Self Discovery", "Prophetically hopeful", "Prophetically dark">>

project_id == Str("sandbox-456821")
VISION_BUCKET_NAME == project_id \o Str("-oracle-visions")

\* Two draws from the list, each from the whole of it.
SampleWithReplacement == {<<THEMES[a], THEMES[b]>> : a, b \in DOMAIN THEMES}

\* random.sample(THEMES, 2): two positions of the list, without replacement.
Sample2 ==
    {<<THEMES[c[1]], THEMES[c[2]]>> : c \in {d \in (DOMAIN THEMES) \X (DOMAIN THEMES) : d[1] # d[2]}}

\* ", ".join(sample)
JoinThemes(sample) == <<sample[1], ", ", sample[2]>>

\* f"visions/{uuid}.png" and the public URL built from it.
BlobName(uuid) == <<"visions/", uuid, ".png">>
PublicUrl(blob_name) ==
    Str("https://storage.googleapis.com/") \o VISION_BUCKET_NAME \o Str("/") \o blob_name

\* The state of a fresh session holds no key: Absent stands for a missing key.
Absent == <<"<absent>">>
EmptyState == [vision_text |-> Absent, generated_image_url |-> Absent]
Has(st, k) == st[k] # Absent

\* The sub-agents of root_agent, in the order of sub_agents.
SubAgents == <<"text_generator", "image_generator", "vision_formatter">>
NumStages == Len(SubAgents)
Stages == 1..NumStages

\* tools=[...] of each agent.
NoCall == "None"
ToolsOf(s) ==
    CASE SubAgents[s] = "text_generator" -> {"get_vision_themes"}
      [] SubAgents[s] = "image_generator" -> {"generate_vision_image"}
      [] OTHER -> {}

\* output_key of each agent.
OutputKey(s) == IF SubAgents[s] = "text_generator" THEN "vision_text" ELSE "None"

\* The {key} placeholders of each agent's instruction.
InstructionKeys(s) ==
    CASE SubAgents[s] = "text_generator" -> {}
      [] SubAgents[s] = "image_generator" -> {"vision_text"}
      [] OTHER -> {"vision_text", "generated_image_url"}

\* output_schema of vision_formatter, filled from its instruction, and its JSON.
NoResponse == [vision_text |-> NoneStr, image_url |-> NoneStr]
OracleResponse(st) == [vision_text |-> st.vision_text, image_url |-> st.generated_image_url]
Json(r) ==
    Str("{vision_text: ") \o r.vision_text \o Str(", image_url: ") \o r.image_url \o Str("}")

\* The final text of an agent's model. The models are opaque: the verse of the
\* text generator and the acknowledgement of the image agent are fixed
\* non-empty strings; the formatter answers with its schema as JSON.
FinalText(s, st) ==
    CASE SubAgents[s] = "text_generator" -> Str("verse")
      [] SubAgents[s] = "image_generator" -> Str("Image task completed.")
      [] OTHER -> Json(OracleResponse(st))

\* ---------------------------------------------------------------- events
\* An event of runner.run_async: without content, or with a list of parts,
\* each with a text (None for a function call or a function response).
Part(text) == [text |-> text]
Event(parts) == [has_content |-> TRUE, parts |-> parts]
NoContentEvent == [has_content |-> FALSE, parts |-> <<>>]

\* Lines 64-67 of query: the loop over the parts of one event.
RECURSIVE AddParts(_, _)
AddParts(response_text, parts) ==
    IF parts = <<>> THEN response_text
    ELSE AddParts(IF Truthy(Head(parts).text)
                  THEN response_text \o Head(parts).text
                  ELSE response_text,
                  Tail(parts))

\* Only the first part of an event looked at.
AccumulateFirstPart(response_text, event) ==
    IF event.has_content /\ event.parts # <<>>
    THEN AddParts(response_text, <<Head(event.parts)>>)
    ELSE response_text

\* Line 64 and the loop under it: what one event adds to response_text.
Accumulate(response_text, event) ==
    IF event.has_content /\ event.parts # <<>>
    THEN AddParts(response_text, event.parts)
    ELSE response_text

\* ------------------------------------------------- generate_vision_image
\* images: what loading and calling the image model did; storage: what the
\* storage client and the upload did (reached only when an image came back).
ImageOutcomes == {"load_raises", "generate_raises", "empty", "one"}
StorageOutcomes == {"client_raises", "upload_raises", "ok"}

\* Lines 92-100: the upload goes to the bucket of the name VISION_BUCKET_NAME,
\* whatever its lifecycle rules; without the bucket it cannot succeed.
UploadOutcomes(b) == IF b.exists THEN StorageOutcomes ELSE StorageOutcomes \ {"ok"}

ErrorResult(message) == [status |-> "error", message |-> message]
SuccessResult(url) == [status |-> "success", url |-> url]
NoResult == [status |-> "None"]

\* The effect of a tool call: the session state after it, the value it
\* returns, the objects it uploaded, the exception that escapes it.
ToolEffect(st, ret, uploaded, escaped) ==
    [state |-> st, ret |-> ret, uploaded |-> uploaded, escaped |-> escaped]

\* The URL written to the state before the upload is made.
generate_vision_image_writes_first(st, images, storage, uuid) ==
    LET public_url == PublicUrl(BlobName(uuid))
    IN  CASE images \in {"load_raises", "generate_raises"} ->
               ToolEffect(st, ErrorResult(images), {}, NoExc)
          [] images = "empty" ->
               ToolEffect(st, ErrorResult("No image was generated."), {}, NoExc)
          [] storage = "client_raises" ->
               ToolEffect(st, ErrorResult(storage), {}, NoExc)
          [] storage = "upload_raises" ->
               ToolEffect([st EXCEPT !.generated_image_url = public_url],
                          ErrorResult(storage), {}, NoExc)
          [] OTHER ->
               ToolEffect([st EXCEPT !.generated_image_url = public_url],
                          SuccessResult(public_url), {BlobName(uuid)}, NoExc)

\* The storage calls left outside the try block.
generate_vision_image_uncaught(st, images, storage, uuid) ==
    LET public_url == PublicUrl(BlobName(uuid))
    IN  CASE images \in {"load_raises", "generate_raises"} ->
               ToolEffect(st, ErrorResult(images), {}, NoExc)
          [] images = "empty" ->
               ToolEffect(st, ErrorResult("No image was generated."), {}, NoExc)
          [] storage \in {"client_raises", "upload_raises"} ->
               ToolEffect(st, NoResult, {}, Exc("Exception", "generate_vision_image"))
          [] OTHER ->
               ToolEffect([st EXCEPT !.generated_image_url = public_url],
                          SuccessResult(public_url), {BlobName(uuid)}, NoExc)

generate_vision_image(st, images, storage, uuid) ==
    LET blob_name == BlobName(uuid)
        public_url == PublicUrl(blob_name)
    IN  CASE images \in {"load_raises", "generate_raises"} ->
               \* except Exception as e: return the error
               ToolEffect(st, ErrorResult(images), {}, NoExc)
          [] images = "empty" ->
               \* if not images: return the error
               ToolEffect(st, ErrorResult("No image was generated."), {}, NoExc)
          [] storage \in {"client_raises", "upload_raises"} ->
               ToolEffect(st, ErrorResult(storage), {}, NoExc)
          [] OTHER ->
               ToolEffect([st EXCEPT !.generated_image_url = public_url],
                          SuccessResult(public_url), {blob_name}, NoExc)

\* get_vision_themes: the joined sample; it takes no tool context.
get_vision_themes(st, sample) ==
    ToolEffect(st, [status |-> "themes", themes |-> JoinThemes(sample)], {}, NoExc)

\* One identifier for every object.
uuid_reused(drawn) == ToString(1)

\* uuid.uuid4(): an identifier no earlier call drew.
uuid4(drawn) == ToString(drawn + 1)

\* ---------------------------------------------------------------- state
VARIABLES
    runner,        \* self._tmpl_attrs has a runner (set_up has run)
    setUps,        \* calls of set_up so far
    sessions,      \* the session service: ids of the sessions that exist
    created,       \* ids async_create_session has returned
    deleteCalls,   \* ids passed to async_delete_session
    objects,       \* blob names uploaded to the bucket
    uuids,         \* identifiers uuid4 has drawn
    frame,         \* per invocation: the locals of query and of its worker
    run,           \* per invocation: the pipeline run in its session
    bucket,        \* the bucket VISION_BUCKET_NAME in the storage service
    gcs,           \* per process: its initialize_gcs calls
    ops,           \* the operation map of register_operations
    loops          \* the event loops made so far and those still open

vars == <<runner, setUps, sessions, created, deleteCalls, objects, uuids, frame, run, bucket, gcs,
          ops, loops>>

\* query's locals before the call.
NoOutcome == [kind |-> "None", text |-> NoneStr, error |-> NoExc]
Returned(text) == [kind |-> "returned", text |-> text, error |-> NoExc]
Raised(e) == [kind |-> "raised", text |-> NoneStr, error |-> e]

InitFrame ==
    [pc |-> "idle",
     loop |-> "None",                                      \* new_loop: open, closed
     new_loop |-> 0,                   \* the loop object the worker made
     result_container |-> [data |-> NoneStr, error |-> NoExc],
     exc |-> NoExc,                    \* the exception propagating in the worker
     session |-> 0,                    \* session.id
     response_text |-> EmptyStr,
     outcome |-> NoOutcome]            \* what query did: returned or raised

\* A pipeline run before the runner starts it.
InitRun ==
    [state |-> EmptyState,
     status |-> [s \in Stages |-> "pending"],
     call |-> NoCall,                              \* function call in flight
     ncalls |-> 0,                                 \* calls the current agent made
     final |-> NoneStr,                            \* final text not yet appended
     finalOf |-> 0,                                \* the agent it is of
     terminal |-> NoResponse,                      \* the formatter's response
     toolRet |-> NoResult,                         \* the function response at hand
     toolIn |-> "None",                            \* what its image call met
     events |-> <<>>,                              \* events yielded to query
     elog |-> <<>>]                                \* what the stages did, in order

Finished(i) == frame[i].pc \in {"done", "gone"}

\* -------------------------------------------------------- the bridge
\* run_in_thread, lines 78-88: what the worker leaves in result_container when
\* run_until_complete returned value (exc = NoExc) or raised exc.
run_in_thread(result_container, exc, value) ==
    IF exc = NoExc THEN [result_container EXCEPT !.data = value]
    ELSE IF IsException(exc) THEN [result_container EXCEPT !.error = exc]
    ELSE result_container

\* Lines 95-98: what query does once the worker is joined.
AfterJoin(result_container) ==
    IF result_container.error # NoExc
    THEN Raised(result_container.error)
    ELSE Returned(IF Truthy(result_container.data) THEN result_container.data ELSE EmptyStr)

\* The caller blocks in query: its next call starts when the last has ended,
\* and the locals of an ended call are gone by then.
Forget(f) == IF f.pc \in {"done", "gone"} THEN [InitFrame EXCEPT !.pc = "gone"] ELSE f

\* One loop shared by the workers instead of a new one for each.
shared_event_loop(made) == 1

\* asyncio.new_event_loop() of line 79: a loop object that did not exist
\* before. The loop of a calling thread, if it has one, is loop 0.
new_event_loop(made) == made + 1

\* Lines 76-80 and 91-92: the locals of a call whose worker has started, made
\* its loop and set it as the loop of its thread.
StartWorker(made) ==
    [InitFrame EXCEPT !.pc = "check_runner", !.loop = "open",
                      !.new_loop = new_event_loop(made)]

OpenLoop(l, id) == [made |-> IF id > l.made THEN id ELSE l.made, open |-> l.open \cup {id}]
CloseLoop(l, id) == [l EXCEPT !.open = @ \ {id}]

\* Lines 76-92: the container is made, the worker started with a new loop.
Query(i) ==
    /\ frame[i].pc = "idle"
    /\ \A j \in Invocations \ {i} : (j < i => Finished(j)) /\ (j > i => frame[j].pc = "idle")
    /\ frame' = [j \in Invocations |->
                   IF j = i THEN StartWorker(loops.made) ELSE Forget(frame[j])]
    /\ loops' = OpenLoop(loops, new_event_loop(loops.made))
    /\ run' = [j \in Invocations |-> IF Finished(j) THEN InitRun ELSE run[j]]
    /\ UNCHANGED <<runner, setUps, sessions, created, deleteCalls, objects, uuids, bucket, gcs, ops>>

\* Line 37: if not self._tmpl_attrs.get("runner")
CheckRunner(i) ==
    /\ frame[i].pc = "check_runner"
    /\ frame' = [frame EXCEPT ![i].pc = IF runner THEN "create_session" ELSE "set_up"]
    /\ UNCHANGED <<runner, setUps, sessions, created, deleteCalls, objects, uuids, run, bucket, gcs, ops, loops>>

\* Line 38: self.set_up()
SetUp(i) ==
    /\ frame[i].pc = "set_up"
    /\ runner' = TRUE
    /\ setUps' = setUps + 1
    /\ frame' = [frame EXCEPT ![i].pc = "create_session"]
    /\ UNCHANGED <<sessions, created, deleteCalls, objects, uuids, run, bucket, gcs, ops, loops>>

SetUpRaises(i) ==
    /\ frame[i].pc = "set_up"
    /\ frame' = [frame EXCEPT ![i].pc = "thread_exit", ![i].exc = Exc("Exception", "set_up")]
    /\ UNCHANGED <<runner, setUps, sessions, created, deleteCalls, objects, uuids, run, bucket, gcs, ops, loops>>

\* Lines 43-45: the session service hands out a fresh id.
CreateSession(i) ==
    /\ frame[i].pc = "create_session"
    /\ LET id == Cardinality(created) + 1
       IN  /\ sessions' = sessions \cup {id}
           /\ created' = created \cup {id}
           /\ frame' = [frame EXCEPT ![i].pc = "run", ![i].session = id,
                                     ![i].response_text = EmptyStr]
    /\ run' = [run EXCEPT ![i] = InitRun]
    /\ UNCHANGED <<runner, setUps, deleteCalls, objects, uuids, bucket, gcs, ops, loops>>

\* async_create_session raises: the try of line 46 is not entered yet.
CreateSessionRaises(i) ==
    /\ frame[i].pc = "create_session"
    /\ \E e \in AwaitRaises("create_session") :
         frame' = [frame EXCEPT ![i].pc = "thread_exit", ![i].exc = e]
    /\ UNCHANGED <<runner, setUps, sessions, created, deleteCalls, objects, uuids, run, bucket, gcs, ops, loops>>

\* The session deleted after the loop instead of in a finally clause.
FinallyOnlyOnSuccess(e) == e = NoExc

\* Lines 68-73, the finally clause: once the session is deleted a pending
\* exception goes on propagating; without one _run_async returns response_text.
\* FinallyRuns: whether the clause runs when the try block is left with the
\* exception e pending (NoExc: left normally).
FinallyRuns(e) == TRUE

DeleteSession(i) ==
    /\ frame[i].pc = "finally"
    /\ IF FinallyRuns(frame[i].exc)
       THEN /\ deleteCalls' = deleteCalls \cup {frame[i].session}
            /\ sessions' = sessions \ {frame[i].session}
       ELSE UNCHANGED <<deleteCalls, sessions>>
    /\ frame' = [frame EXCEPT ![i].pc = "thread_exit"]
    /\ UNCHANGED <<runner, setUps, created, objects, uuids, run, bucket, gcs, ops, loops>>

\* async_delete_session raises: its exception replaces a pending one.
DeleteSessionRaises(i) ==
    /\ frame[i].pc = "finally"
    /\ FinallyRuns(frame[i].exc)
    /\ deleteCalls' = deleteCalls \cup {frame[i].session}
    /\ \E e \in AwaitRaises("delete_session") :
         frame' = [frame EXCEPT ![i].pc = "thread_exit", ![i].exc = e]
    /\ UNCHANGED <<runner, setUps, sessions, created, objects, uuids, run, bucket, gcs, ops, loops>>

\* async_delete_session never completes: nothing bounds the await.
DeleteSessionHangs(i) ==
    /\ frame[i].pc = "finally"
    /\ FinallyRuns(frame[i].exc)
    /\ deleteCalls' = deleteCalls \cup {frame[i].session}
    /\ frame' = [frame EXCEPT ![i].pc = "hung"]
    /\ UNCHANGED <<runner, setUps, sessions, created, objects, uuids, run, bucket, gcs, ops, loops>>

\* Lines 81-88: run_until_complete has returned or raised in the worker.
WorkerExit(i) ==
    /\ frame[i].pc = "thread_exit"
    /\ frame' = [frame EXCEPT ![i].pc = "joined",
                              ![i].loop = "closed",
                              ![i].result_container =
                                  run_in_thread(@, frame[i].exc, frame[i].response_text)]
    /\ loops' = CloseLoop(loops, frame[i].new_loop)
    /\ UNCHANGED <<runner, setUps, sessions, created, deleteCalls, objects, uuids, run, bucket, gcs, ops>>

\* Lines 93-98: t.join() is over.
Return(i) ==
    /\ frame[i].pc = "joined"
    /\ frame' = [frame EXCEPT ![i].pc = "done",
                              ![i].outcome = AfterJoin(frame[i].result_container)]
    /\ UNCHANGED <<runner, setUps, sessions, created, deleteCalls, objects, uuids, run, bucket, gcs, ops, loops>>

\* ------------------------------------------------------ the pipeline
\* runner.run_async over root_agent: SequentialAgent runs its sub-agents in
\* the order of the list, each to its end. Every event an agent yields is
\* appended to the session by the runner (its state delta lands in the
\* state) and handed to query's loop before the agent goes on.
Did(op, s) == [op |-> op, stage |-> s]

\* An agent started as soon as the one before it has started.
RunnableEager(status) ==
    {s \in Stages : status[s] = "pending" /\ \A t \in 1..(s - 1) : status[t] # "pending"}

\* The stages that may begin: the first one not yet run, once those before it
\* are completed.
Runnable(status) ==
    {s \in Stages : status[s] = "pending" /\ \A t \in 1..(s - 1) : status[t] = "completed"}

Missing(s, st) == {k \in InstructionKeys(s) : ~Has(st, k)}

\* The agent's turn: it is running, no call of its is in flight and no event
\* of the run waits to be appended.
AtModel(i, s) ==
    /\ frame[i].pc = "run"
    /\ run[i].status[s] = "running"
    /\ run[i].call = NoCall
    /\ run[i].final = NoneStr

\* The instruction is resolved for each request to the model.
ReadsOf(s) == IF InstructionKeys(s) = {} THEN <<>> ELSE <<Did("read", s)>>

\* before_agent_callback = log_state_callback: the agent starts by reading
\* both keys of the state.
AgentBegin(i, s) ==
    /\ frame[i].pc = "run"
    /\ run[i].call = NoCall /\ run[i].final = NoneStr
    /\ s \in Runnable(run[i].status)
    /\ run' = [run EXCEPT ![i].status[s] = "running",
                          ![i].ncalls = 0,
                          ![i].elog = @ \o <<Did("begin", s), Did("read", s)>>]
    /\ UNCHANGED <<runner, setUps, sessions, created, deleteCalls, objects, uuids, frame, bucket, gcs, ops, loops>>

\* A placeholder of the instruction names a key the state does not hold: the
\* request cannot be built, KeyError leaves run_async.
InstructionError(i, s) ==
    /\ AtModel(i, s)
    /\ Missing(s, run[i].state) # {}
    /\ run' = [run EXCEPT ![i].status[s] = "failed",
                          ![i].elog = @ \o ReadsOf(s)]
    /\ frame' = [frame EXCEPT ![i].pc = "finally", ![i].exc = Exc("Exception", "instruction")]
    /\ UNCHANGED <<runner, setUps, sessions, created, deleteCalls, objects, uuids, bucket, gcs, ops, loops>>

\* The model call raises: the exception leaves run_async.
ModelRaises(i, s) ==
    /\ AtModel(i, s)
    /\ Missing(s, run[i].state) = {}
    /\ run' = [run EXCEPT ![i].status[s] = "failed",
                          ![i].toolRet = NoResult,
                          ![i].elog = @ \o ReadsOf(s)]
    /\ \E e \in AwaitRaises("run_async") :
         frame' = [frame EXCEPT ![i].pc = "finally", ![i].exc = e]
    /\ UNCHANGED <<runner, setUps, sessions, created, deleteCalls, objects, uuids, bucket, gcs, ops, loops>>

\* The model call never completes: nothing bounds the await.
ModelHangs(i, s) ==
    /\ AtModel(i, s)
    /\ Missing(s, run[i].state) = {}
    /\ run' = [run EXCEPT ![i].toolRet = NoResult,
                          ![i].elog = @ \o ReadsOf(s)]
    /\ frame' = [frame EXCEPT ![i].pc = "hung"]
    /\ UNCHANGED <<runner, setUps, sessions, created, deleteCalls, objects, uuids, bucket, gcs, ops, loops>>

\* The model asks for one of the agent's tools: an event whose part has no
\* text reaches query's loop.
ModelCalls(i, s) ==
    /\ AtModel(i, s)
    /\ Missing(s, run[i].state) = {}
    /\ run[i].ncalls < MaxToolCalls
    /\ \E tool \in ToolsOf(s) :
         LET event == Event(<<Part(NoneStr)>>)
         IN  /\ run' = [run EXCEPT ![i].call = tool,
                                   ![i].ncalls = @ + 1,
                                   ![i].toolRet = NoResult,
                                   ![i].events = Append(@, event),
                                   ![i].elog = @ \o ReadsOf(s) \o <<Did("call", s)>>]
             /\ frame' = [frame EXCEPT ![i].response_text = Accumulate(@, event)]
    /\ UNCHANGED <<runner, setUps, sessions, created, deleteCalls, objects, uuids, bucket, gcs, ops, loops>>

StageOfTool(tool) == CHOOSE s \in Stages : tool \in ToolsOf(s)

\* What a tool call leaves behind: the state, the function response (an event
\* whose part has no text), or the exception that escaped the tool.
ToolDone(i, eff, met) ==
    LET s == StageOfTool(run[i].call)
        event == Event(<<Part(NoneStr)>>)
        wrote == IF eff.state # run[i].state THEN <<Did("write", s)>> ELSE <<>>
    IN  IF eff.escaped # NoExc
        THEN /\ run' = [run EXCEPT ![i].call = NoCall,
                                   ![i].state = eff.state,
                                   ![i].toolIn = met,
                                   ![i].status[s] = "failed",
                                   ![i].elog = @ \o wrote \o <<Did("ret", s)>>]
             /\ frame' = [frame EXCEPT ![i].pc = "finally", ![i].exc = eff.escaped]
        ELSE /\ run' = [run EXCEPT ![i].call = NoCall,
                                   ![i].state = eff.state,
                                   ![i].toolRet = eff.ret,
                                   ![i].toolIn = met,
                                   ![i].events = Append(@, event),
                                   ![i].elog = @ \o wrote \o <<Did("ret", s)>>]
             /\ frame' = [frame EXCEPT ![i].response_text = Accumulate(@, event)]

ThemesTool(i) ==
    /\ frame[i].pc = "run"
    /\ run[i].call = "get_vision_themes"
    /\ \E sample \in Sample2 :
         ToolDone(i, get_vision_themes(run[i].state, sample), run[i].toolIn)
    /\ UNCHANGED <<runner, setUps, sessions, created, deleteCalls, objects, uuids, bucket, gcs, ops, loops>>

ImageTool(i) ==
    /\ frame[i].pc = "run"
    /\ run[i].call = "generate_vision_image"
    /\ \E images \in ImageOutcomes, storage \in UploadOutcomes(bucket) :
         LET eff == generate_vision_image(run[i].state, images, storage, uuid4(uuids))
         IN  /\ ToolDone(i, eff, IF images = "one" THEN storage ELSE images)
             /\ objects' = objects \cup eff.uploaded
             /\ uuids' = IF images = "one" /\ storage # "client_raises"
                         THEN uuids + 1 ELSE uuids
    /\ UNCHANGED <<runner, setUps, sessions, created, deleteCalls, bucket, gcs, ops, loops>>

\* The model gives its final text: the agent yields its last event.
ModelAnswers(i, s) ==
    /\ AtModel(i, s)
    /\ Missing(s, run[i].state) = {}
    /\ run' = [run EXCEPT ![i].final = FinalText(s, run[i].state),
                          ![i].finalOf = s,
                          ![i].toolRet = NoResult,
                          ![i].terminal = IF SubAgents[s] = "vision_formatter"
                                          THEN OracleResponse(run[i].state) ELSE @,
                          ![i].elog = @ \o ReadsOf(s)]
    /\ UNCHANGED <<runner, setUps, sessions, created, deleteCalls, objects, uuids, frame, bucket, gcs, ops, loops>>

\* The runner appends the final event: the text lands under the agent's
\* output_key, query's loop takes the event, the agent ends. After the last
\* agent run_async is exhausted and query's loop ends.
AppendFinal(i) ==
    /\ frame[i].pc = "run"
    /\ run[i].final # NoneStr
    /\ LET r == run[i]
           s == r.finalOf
           event == Event(<<Part(r.final)>>)
           key == OutputKey(s)
           status == [r.status EXCEPT ![s] = "completed"]
       IN  /\ run' = [run EXCEPT ![i].state = IF key = "None" THEN @
                                               ELSE [@ EXCEPT ![key] = r.final],
                                 ![i].status = status,
                                 ![i].final = NoneStr,
                                 ![i].finalOf = 0,
                                 ![i].events = Append(@, event),
                                 ![i].elog = @ \o (IF key = "None" THEN <<>>
                                                   ELSE <<Did("write", s)>>)
                                             \o <<Did("end", s)>>]
           /\ frame' = [frame EXCEPT ![i].response_text = Accumulate(@, event),
                                     ![i].pc = IF \A t \in Stages : status[t] = "completed"
                                               THEN "finally" ELSE "run"]
    /\ UNCHANGED <<runner, setUps, sessions, created, deleteCalls, objects, uuids, bucket, gcs, ops, loops>>

\* ------------------------------------------- the stream as query sees it
\* query's loop knows nothing of the agents: runner.run_async is a stream of
\* events that may end, raise or never go on. An event has no content, or a
\* content with no parts, or parts whose text is None (a function call or
\* response), "" or a piece of text.
PartTexts == {NoneStr, Str("a"), Str("b")}
EventShapes ==
    {NoContentEvent, Event(<<Part(EmptyStr)>>)}
        \cup {Event(parts) : parts \in UNION {[1..n -> {Part(t) : t \in PartTexts}] : n \in 0..MaxParts}}

\* Lines 59-67: the stream yields an event and the loop body runs on it.
Yield(i, event) ==
    /\ frame[i].pc = "run"
    /\ Len(run[i].events) < MaxEvents
    /\ run' = [run EXCEPT ![i].events = Append(@, event)]
    /\ frame' = [frame EXCEPT ![i].response_text = Accumulate(@, event)]
    /\ UNCHANGED <<runner, setUps, sessions, created, deleteCalls, objects, uuids, bucket, gcs, ops, loops>>

\* The stream is exhausted: the loop ends and the try block is left.
StreamEnds(i) ==
    /\ frame[i].pc = "run"
    /\ frame' = [frame EXCEPT ![i].pc = "finally"]
    /\ UNCHANGED <<runner, setUps, sessions, created, deleteCalls, objects, uuids, run, bucket, gcs, ops, loops>>

\* The stream raises instead of yielding.
StreamRaises(i) ==
    /\ frame[i].pc = "run"
    /\ \E e \in AwaitRaises("run_async") :
         frame' = [frame EXCEPT ![i].pc = "finally", ![i].exc = e]
    /\ UNCHANGED <<runner, setUps, sessions, created, deleteCalls, objects, uuids, run, bucket, gcs, ops, loops>>

\* The stream never yields again.
StreamHangs(i) ==
    /\ frame[i].pc = "run"
    /\ frame' = [frame EXCEPT ![i].pc = "hung"]
    /\ UNCHANGED <<runner, setUps, sessions, created, deleteCalls, objects, uuids, run, bucket, gcs, ops, loops>>

\* A caller thread enters query while other calls may be under way: each
\* call has its own locals, container and worker.
ConcurrentQuery(i) ==
    /\ frame[i].pc = "idle"
    /\ frame' = [frame EXCEPT ![i] = StartWorker(loops.made)]
    /\ loops' = OpenLoop(loops, new_event_loop(loops.made))
    /\ UNCHANGED <<runner, setUps, sessions, created, deleteCalls, objects, uuids, run, bucket, gcs, ops>>

\* ------------------------------------------------------ initialize_gcs
LifecycleAge == 7

\* The bucket in the storage service: made counts the buckets of the name
\* that were ever brought into existence.
NoBucket == [exists |-> FALSE, lifecycle_rules |-> 0, made |-> 0]
OldBucket == [exists |-> TRUE, lifecycle_rules |-> LifecycleAge, made |-> 1]

\* One call of initialize_gcs: what bucket.exists(), create_bucket and patch
\* answered (None: not called), and how the call ended.
NewCall == [exists |-> "None", create |-> "None", patch |-> "None", result |-> "running"]

\* A handler that lets "already exists" through.
CatchesButConflict(e) == IsException(e) /\ e.at # "Conflict"

\* except Exception as e: logger.error(...). Every error of the storage client
\* is an Exception.
Catches(e) == IsException(e)

\* No handler around the storage calls.
CallEndUncaught(e) == "raised"

\* How a call in which e was raised ends for its caller.
CallEnd(e) == IF Catches(e) THEN "returned" ELSE "raised"

\* The bucket believed absent without asking.
bucket_believed_absent(b) == FALSE

\* bucket.exists() of line 48.
bucket_exists(b) == b.exists

\* create_bucket of the storage service: a name is taken once.
create_bucket(b) ==
    IF b.exists THEN [bucket |-> b, answer |-> "Conflict"]
    ELSE [bucket |-> [b EXCEPT !.exists = TRUE, !.made = @ + 1], answer |-> "ok"]

\* Whether a call that has ended found the bucket, made it, or was told that
\* it already exists.
Ensured(call) == call.exists = "true" \/ call.create \in {"ok", "Conflict"}

InitGcs == [pc |-> "idle", n |-> 0, call |-> NewCall, prev |-> "None"]

\* Line 41: the module is imported (or the function called again).
GcsBegin(p) ==
    /\ gcs[p].pc = "idle"
    /\ gcs[p].n < MaxInitCalls
    /\ gcs' = [gcs EXCEPT ![p].pc = "exists",
                          ![p].n = @ + 1,
                          ![p].call = NewCall,
                          ![p].prev = IF gcs[p].n = 0 THEN "None"
                                      ELSE IF Ensured(gcs[p].call) THEN "ensured"
                                      ELSE "failed"]
    /\ UNCHANGED <<runner, setUps, sessions, created, deleteCalls, objects, uuids, frame, run, bucket, ops, loops>>

\* The bucket taken for absent from an earlier attempt: create without asking.
GcsExistsCached(p) ==
    /\ gcs[p].pc = "exists"
    /\ gcs' = [gcs EXCEPT ![p].pc = "create"]
    /\ UNCHANGED <<runner, setUps, sessions, created, deleteCalls, objects, uuids, frame, run, bucket, ops, loops>>

\* Lines 45-48 and 58-59: the client is made and bucket.exists() answers.
GcsExists(p) ==
    /\ gcs[p].pc = "exists"
    /\ gcs' = [gcs EXCEPT ![p].pc = IF bucket_exists(bucket) THEN "idle" ELSE "create",
                          ![p].call.exists = IF bucket_exists(bucket) THEN "true" ELSE "false",
                          ![p].call.result = IF bucket_exists(bucket) THEN "returned" ELSE @]
    /\ UNCHANGED <<runner, setUps, sessions, created, deleteCalls, objects, uuids, frame, run, bucket, ops, loops>>

\* The client or bucket.exists() raises: lines 61-62.
GcsExistsRaises(p) ==
    /\ gcs[p].pc = "exists"
    /\ gcs' = [gcs EXCEPT ![p].pc = "idle",
                          ![p].call.exists = "raised",
                          ![p].call.result = CallEnd(Exc("Exception", "exists"))]
    /\ UNCHANGED <<runner, setUps, sessions, created, deleteCalls, objects, uuids, frame, run, bucket, ops, loops>>

\* Line 50: create_bucket. A bucket another process made since the check
\* answers Conflict, an Exception that lines 61-62 catch.
GcsCreate(p) ==
    /\ gcs[p].pc = "create"
    /\ LET made == create_bucket(bucket)
       IN  /\ bucket' = made.bucket
           /\ gcs' = [gcs EXCEPT ![p].pc = IF made.answer = "ok" THEN "patch" ELSE "idle",
                                 ![p].call.create = made.answer,
                                 ![p].call.result =
                                     IF made.answer = "ok" THEN @
                                     ELSE CallEnd(Exc("Exception", "Conflict"))]
    /\ UNCHANGED <<runner, setUps, sessions, created, deleteCalls, objects, uuids, frame, run, ops, loops>>

\* create_bucket fails for another reason (no permission, no network).
GcsCreateRaises(p) ==
    /\ gcs[p].pc = "create"
    /\ gcs' = [gcs EXCEPT ![p].pc = "idle",
                          ![p].call.create = "raised",
                          ![p].call.result = CallEnd(Exc("Exception", "create_bucket"))]
    /\ UNCHANGED <<runner, setUps, sessions, created, deleteCalls, objects, uuids, frame, run, bucket, ops, loops>>

\* Lines 53-57: the lifecycle rule is patched onto the new bucket.
GcsPatch(p) ==
    /\ gcs[p].pc = "patch"
    /\ bucket' = [bucket EXCEPT !.lifecycle_rules = LifecycleAge]
    /\ gcs' = [gcs EXCEPT ![p].pc = "idle",
                          ![p].call.patch = "ok",
                          ![p].call.result = "returned"]
    /\ UNCHANGED <<runner, setUps, sessions, created, deleteCalls, objects, uuids, frame, run, ops, loops>>

GcsPatchRaises(p) ==
    /\ gcs[p].pc = "patch"
    /\ gcs' = [gcs EXCEPT ![p].pc = "idle",
                          ![p].call.patch = "raised",
                          ![p].call.result = CallEnd(Exc("Exception", "patch"))]
    /\ UNCHANGED <<runner, setUps, sessions, created, deleteCalls, objects, uuids, frame, run, bucket, ops, loops>>

\* ------------------------------------------------ register_operations
\* The operation map: execution mode -> list of operation names. A dict is a
\* function on the modes, a key it does not hold is NoKey.
Modes == {"", "async", "stream", "async_stream"}
NoKey == [present |-> FALSE, names |-> <<>>]
Key(names) == [present |-> TRUE, names |-> names]
Names(entry) == {entry.names[k] : k \in DOMAIN entry.names}

\* What the parent class may register under a mode, in lists of up to MaxOps.
NamesOf(mode) ==
    CASE mode = "" -> {"query", "get_session"}
      [] mode = "async" -> {"async_get_session"}
      [] mode = "stream" -> {"stream_query"}
      [] OTHER -> {"async_stream_query"}

Lists(S) == UNION {[1..n -> S] : n \in 0..MaxOps}

\* super().register_operations() of line 104: any map over the modes.
EntriesOf(mode) == {NoKey} \cup {Key(l) : l \in Lists(NamesOf(mode))}
ParentOps ==
    {[mode \in Modes |-> CASE mode = "" -> d
                           [] mode = "async" -> a
                           [] mode = "stream" -> st
                           [] OTHER -> as] :
        d \in EntriesOf(""), a \in EntriesOf("async"),
        st \in EntriesOf("stream"), as \in EntriesOf("async_stream")}

\* Lines 106-116.
register_operations(parent) ==
    LET withDefault == IF ~parent[""].present THEN [parent EXCEPT ![""] = Key(<<>>)] ELSE parent
        withQuery == IF "query" \notin Names(withDefault[""])
                     THEN [withDefault EXCEPT ![""] = Key(Append(@.names, "query"))]
                     ELSE withDefault
        noAsync == [withQuery EXCEPT !["async"] = NoKey]
    IN  [noAsync EXCEPT !["async_stream"] = NoKey]

NotRegistered == [registered |-> FALSE, map |-> [mode \in Modes |-> NoKey]]

\* The engine asks the app for its operations.
RegisterOperations ==
    /\ ~ops.registered
    /\ ops' = [registered |-> TRUE, map |-> register_operations(ops.map)]
    /\ UNCHANGED <<runner, setUps, sessions, created, deleteCalls, objects, uuids, frame, run,
                   bucket, gcs, loops>>

\* ------------------------------------------------------ specifications
QueryInit ==
    /\ runner = FALSE
    /\ setUps = 0
    /\ sessions = {}
    /\ created = {}
    /\ deleteCalls = {}
    /\ objects = {}
    /\ uuids = 0
    /\ frame = [i \in Invocations |-> InitFrame]
    /\ run = [i \in Invocations |-> InitRun]
    /\ gcs = [p \in Processes |-> InitGcs]
    /\ loops = [made |-> 0, open |-> {}]

Init == QueryInit /\ bucket = OldBucket /\ ops = NotRegistered

Step(i) ==
        \/ Query(i)
        \/ CheckRunner(i)
        \/ SetUp(i)
        \/ SetUpRaises(i)
        \/ CreateSession(i)
        \/ CreateSessionRaises(i)
        \/ \E s \in Stages :
             \/ AgentBegin(i, s)
             \/ InstructionError(i, s)
             \/ ModelRaises(i, s)
             \/ ModelHangs(i, s)
             \/ ModelCalls(i, s)
             \/ ModelAnswers(i, s)
        \/ ThemesTool(i)
        \/ ImageTool(i)
        \/ AppendFinal(i)
        \/ DeleteSession(i)
        \/ DeleteSessionRaises(i)
        \/ DeleteSessionHangs(i)
        \/ WorkerExit(i)
        \/ Return(i)

Next == \E i \in Invocations : Step(i)

Spec == Init /\ [][Next]_vars

\* The processes that import app.agent, the bucket there or not.
GcsInit == QueryInit /\ bucket \in {NoBucket, OldBucket} /\ ops = NotRegistered

GcsNext ==
    \E p \in Processes :
        \/ GcsBegin(p)
        \/ GcsExists(p)
        \/ GcsExistsRaises(p)
        \/ GcsCreate(p)
        \/ GcsCreateRaises(p)
        \/ GcsPatch(p)
        \/ GcsPatchRaises(p)

GcsSpec == GcsInit /\ [][GcsNext]_vars

\* What query does around the stream, whatever the stream is.
Bridge(i) ==
        \/ CheckRunner(i)
        \/ SetUp(i)
        \/ SetUpRaises(i)
        \/ CreateSession(i)
        \/ CreateSessionRaises(i)
        \/ StreamEnds(i)
        \/ StreamRaises(i)
        \/ StreamHangs(i)
        \/ DeleteSession(i)
        \/ DeleteSessionRaises(i)
        \/ DeleteSessionHangs(i)
        \/ WorkerExit(i)
        \/ Return(i)

\* One call of query over a runner that yields any stream of events.
StreamNext ==
    \/ Query(1)
    \/ Bridge(1)
    \/ \E event \in EventShapes : Yield(1, event)

StreamSpec == Init /\ [][StreamNext]_vars

\* Calls of query from several caller threads at once, on one app. What the
\* streams yield is left to StreamSpec: here a stream ends, raises or hangs.
ConcNext ==
    \E i \in Invocations :
        \/ ConcurrentQuery(i)
        \/ Bridge(i)

ConcSpec == Init /\ [][ConcNext]_vars

\* The app as the engine loads it: the parent's operation map, whatever it is.
OpsInit ==
    /\ QueryInit
    /\ bucket = OldBucket
    /\ ops \in {[registered |-> FALSE, map |-> m] : m \in ParentOps}

OpsNext == RegisterOperations

OpsSpec == OpsInit /\ [][OpsNext]_vars

\* ---------------------------------------------------------------- claims
Done(i) == frame[i].pc = "done"

\* The asynchronous run of invocation i raised: an exception left _run_async.
RunRaised(i) == frame[i].exc # NoExc

\* What set_up, the session service or a model call did wrong, as against
\* what the pipeline's own stages did.
InfrastructureFailed(i) ==
    frame[i].exc.at \in {"set_up", "create_session", "run_async", "delete_session"}

\* C1: whenever the asynchronous run raised, query re-raises that exception
\* once the worker is joined; it never returns a string for such a run.
C1_RunExceptionIsReraised ==
    \A i \in Invocations :
        (Done(i) /\ RunRaised(i)) => frame[i].outcome = Raised(frame[i].exc)

\* C2: every session async_create_session returned has been passed to
\* async_delete_session when query returns or raises, on every exit path; a
\* session not yet passed belongs to a call that is still in its try block
\* (or blocked for ever in it), and a session that still exists after its
\* call ended is one async_delete_session raised on.
C2_SessionsAreDeleted ==
    /\ \A i \in Invocations :
          (Done(i) /\ frame[i].session # 0) =>
              /\ frame[i].session \in deleteCalls
              /\ (frame[i].session \in sessions => frame[i].exc.at = "delete_session")
    /\ \A id \in created \ deleteCalls :
          \E i \in Invocations :
              frame[i].session = id /\ frame[i].pc \in {"run", "finally", "hung"}

\* A call whose run raised while streaming has ended with its session deleted.
C2_Witness ==
    \E i \in Invocations :
        /\ Done(i)
        /\ frame[i].exc.at \in {"run_async", "instruction"}
        /\ frame[i].session \in deleteCalls
        /\ frame[i].session \notin sessions

\* C3: a call of query that has started ends (returns or raises) or can take
\* a step: it never blocks for ever.
C3_QueryNeverBlocks ==
    \A i \in Invocations :
        frame[i].pc # "idle" => (Finished(i) \/ ENABLED Step(i))

\* C4: in every pipeline run an agent begins, and reads the state, only after
\* the agent before it has ended, with every tool call it made returned and
\* its writes (vision_text under its output_key, generated_image_url by its
\* tool) landed in the state; an agent that has ended does nothing more.
C4_StageWaitsForThePrevious ==
    \A i \in Invocations :
        LET L == run[i].elog
            status == run[i].status
        IN  /\ \A q \in DOMAIN L : \A p \in 1..(q - 1) :
                  /\ L[p].stage <= L[q].stage
                  /\ L[p].op = "end" => L[p].stage < L[q].stage
            /\ \A q \in DOMAIN L :
                  L[q].stage > 1 =>
                      \E e \in 1..(q - 1) :
                          /\ L[e] = Did("end", L[q].stage - 1)
                          /\ \A c \in 1..(e - 1) :
                                L[c] = Did("call", L[e].stage) =>
                                    \E r \in (c + 1)..(e - 1) : L[r] = Did("ret", L[e].stage)
                          /\ OutputKey(L[e].stage) # "None" =>
                                \E w \in 1..(e - 1) : L[w] = Did("write", L[e].stage)
            /\ \A s \in Stages :
                  (s > 1 /\ status[s] # "pending") =>
                      /\ status[s - 1] = "completed"
                      /\ run[i].call \notin ToolsOf(s - 1)
                      /\ run[i].finalOf # s - 1
                      /\ OutputKey(s - 1) # "None" => Has(run[i].state, OutputKey(s - 1))

\* The formatter has begun in a run whose image agent called its tool, which
\* wrote the URL.
C4_Witness ==
    \E i \in Invocations :
        LET L == run[i].elog
        IN  \E c, w, b \in DOMAIN L :
                /\ c < w /\ w < b
                /\ L[c] = Did("call", 2) /\ L[w] = Did("write", 2) /\ L[b] = Did("begin", 3)
                /\ run[i].status[3] = "running"

\* The function response at hand is that of generate_vision_image.
ImageToolReturned(i) == run[i].toolRet.status \in {"success", "error"}

\* C5: every call of generate_vision_image leaves generated_image_url in the
\* session state: the URL it returns on success, "" on any failure; the key is
\* there once the image agent has ended.
C5_ImageToolAlwaysWritesTheKey ==
    \A i \in Invocations :
        /\ ImageToolReturned(i) =>
              /\ Has(run[i].state, "generated_image_url")
              /\ run[i].toolRet.status = "success" =>
                    run[i].state.generated_image_url = run[i].toolRet.url
              /\ run[i].toolRet.status = "error" =>
                    run[i].state.generated_image_url = EmptyStr
        /\ (run[i].toolIn # "None" /\ run[i].status[2] = "completed") =>
              Has(run[i].state, "generated_image_url")

\* The image model failed or returned no image in the last call of the tool.
ImageSynthesisFailed(i) == run[i].toolIn \in {"load_raises", "generate_raises", "empty"}

\* C6: when image synthesis returned no image or failed (and neither the
\* models nor the session service failed), query raises nothing and the
\* formatter's result has a non-empty vision_text and image_url "".
C6_DegradedResult ==
    \A i \in Invocations :
        (Done(i) /\ ImageSynthesisFailed(i) /\ ~InfrastructureFailed(i)) =>
            /\ frame[i].outcome.kind = "returned"
            /\ Truthy(run[i].terminal.vision_text)
            /\ run[i].terminal.image_url = EmptyStr

OpsOf(L, op) == SelectSeq(L, LAMBDA e : e.op = op)

\* C7: whatever the image tool met (success, no image, an exception of the
\* image model or of the upload), a run in which neither the models nor the
\* session service failed has begun and ended each of the three agents once,
\* in the order of sub_agents.
C7_AllStagesRunOnceInOrder ==
    \A i \in Invocations :
        (Done(i) /\ run[i].toolIn # "None" /\ ~InfrastructureFailed(i)) =>
            /\ OpsOf(run[i].elog, "begin") = [s \in Stages |-> Did("begin", s)]
            /\ OpsOf(run[i].elog, "end") = [s \in Stages |-> Did("end", s)]
            /\ \A s \in Stages : run[i].status[s] = "completed"

\* C8: no exception leaves generate_vision_image; it returns status success
\* exactly when an image came back and its upload completed (the URL is that
\* of an uploaded object), and status error when the image model raised,
\* returned no image, or the storage client or the upload raised.
C8_ImageToolReturnsItsErrors ==
    \A i \in Invocations :
        /\ frame[i].exc.at # "generate_vision_image"
        /\ ImageToolReturned(i) =>
              /\ run[i].toolRet.status = "success" <=> run[i].toolIn = "ok"
              /\ run[i].toolRet.status = "success" =>
                    \E b \in objects : run[i].toolRet.url = PublicUrl(b)
              /\ run[i].toolRet.status = "error" =>
                    run[i].toolIn \in {"load_raises", "generate_raises", "empty",
                                       "client_raises", "upload_raises"}

\* The upload raised and the tool returned status error.
C8_Witness ==
    \E i \in Invocations :
        /\ run[i].toolIn = "upload_raises"
        /\ run[i].toolRet.status = "error"
        /\ frame[i].pc = "run"

\* Every call of initialize_gcs so far that has ended returned to its caller.
NoCallRaised == \A p \in Processes : gcs[p].call.result # "raised"

\* Process p has made a call after its first one, and the call has ended.
CalledAgain(p) == gcs[p].n >= 2 /\ gcs[p].pc = "idle"

\* C9 as claimed: after two calls in sequence neither has raised, one bucket
\* of the name exists, and the second call made no create and no patch.
C9_SecondCallDoesNothing ==
    \A p \in Processes :
        CalledAgain(p) =>
            /\ NoCallRaised
            /\ bucket.exists /\ bucket.made = 1
            /\ gcs[p].call.create = "None" /\ gcs[p].call.patch = "None"

\* C9 as amended: no call raises and no second bucket of the name is ever
\* made; when the call before found the bucket, made it or was told that it
\* exists, one bucket exists and the later call makes no create and no patch.
C9_IdempotentOnceEnsured ==
    /\ NoCallRaised
    /\ bucket.made <= 1
    /\ \A p \in Processes :
          (gcs[p].n >= 2 /\ gcs[p].prev = "ensured") =>
              /\ bucket.exists /\ bucket.made = 1
              /\ gcs[p].call.create = "None" /\ gcs[p].call.patch = "None"

\* A process whose first call made the bucket has ended its second call.
C9_Witness ==
    \E p \in Processes :
        /\ CalledAgain(p)
        /\ gcs[p].prev = "ensured"
        /\ gcs[p].call.exists = "true"
        /\ gcs[p].call.result = "returned"
        /\ bucket.lifecycle_rules = LifecycleAge

\* Every process has called initialize_gcs and no call is running.
AllInitialized == \A p \in Processes : gcs[p].n >= 1 /\ gcs[p].pc = "idle"

\* C10 as claimed: once the concurrent calls have all ended, none has raised
\* and the bucket exists.
C10_BucketExistsAfterTheRace ==
    AllInitialized => (NoCallRaised /\ bucket.exists)

\* C10 as amended: no call raises under any interleaving (a create that is
\* told "already exists" is swallowed), and once all calls have ended the
\* bucket exists unless the existence check or the create of every process
\* failed with another error of the storage service.
C10_RaceIsTolerated ==
    /\ NoCallRaised
    /\ \A p \in Processes :
          gcs[p].call.create = "Conflict" => (gcs[p].call.result = "returned" /\ bucket.exists)
    /\ (AllInitialized /\ ~bucket.exists) =>
          \A p \in Processes : gcs[p].call.exists = "raised" \/ gcs[p].call.create = "raised"

\* Two processes found no bucket, one made it and the other was told that it
\* already exists; both calls have ended.
C10_Witness ==
    /\ AllInitialized
    /\ \E p, q \in Processes :
          /\ gcs[p].n = 1 /\ gcs[q].n = 1
          /\ gcs[p].call.exists = "false" /\ gcs[p].call.create = "ok"
          /\ gcs[q].call.exists = "false" /\ gcs[q].call.create = "Conflict"
          /\ gcs[q].call.result = "returned"
    /\ bucket.exists

\* C11: in every call of initialize_gcs, create_bucket is called only after
\* bucket.exists() answered false in that same call (and the patch only after
\* that create succeeded); a call in which bucket.exists() answered true
\* returns having called neither create_bucket nor patch.
C11_CreateOnlyAfterCheck ==
    \A p \in Processes :
        LET call == gcs[p].call
        IN  /\ gcs[p].pc \in {"create", "patch"} => call.exists = "false"
            /\ call.create # "None" => call.exists = "false"
            /\ call.patch # "None" => call.create = "ok"
            /\ call.exists = "true" =>
                  /\ call.create = "None" /\ call.patch = "None"
                  /\ call.result = "returned"

\* One process found no bucket and made it with its rule; another then asked,
\* found it, and returned without touching it.
C11_Witness ==
    \E p, q \in Processes :
        /\ gcs[q].call.exists = "false" /\ gcs[q].call.create = "ok" /\ gcs[q].call.patch = "ok"
        /\ gcs[p].call.exists = "true" /\ gcs[p].call.result = "returned"
        /\ gcs[p].call.create = "None" /\ gcs[p].call.patch = "None"
        /\ bucket.made = 1

\* C12: when the patch of the lifecycle rule fails after the bucket was
\* created, initialize_gcs returns, the bucket exists and an upload of
\* generate_vision_image to it can succeed; a failure of bucket.exists() or
\* of create_bucket ends the call there and does not reach the caller either.
C12_SetupFailuresAreSwallowed ==
    \A p \in Processes :
        LET call == gcs[p].call
        IN  /\ call.patch = "raised" =>
                  /\ call.result = "returned"
                  /\ call.create = "ok"
                  /\ bucket.exists
                  /\ "ok" \in UploadOutcomes(bucket)
            /\ call.exists = "raised" =>
                  /\ call.result = "returned"
                  /\ call.create = "None" /\ call.patch = "None"
            /\ call.create = "raised" =>
                  /\ call.result = "returned"
                  /\ call.patch = "None"

\* A call made the bucket, its patch failed, and the call has ended: the
\* bucket is there without its rule.
C12_Witness ==
    \E p \in Processes :
        /\ gcs[p].pc = "idle"
        /\ gcs[p].call.create = "ok"
        /\ gcs[p].call.patch = "raised"
        /\ bucket.exists
        /\ bucket.lifecycle_rules = 0

\* The parts of a stream that carry a text, in the order of emission.
TextualParts(event) ==
    IF event.has_content THEN SelectSeq(event.parts, LAMBDA part : part.text # NoneStr) ELSE <<>>

RECURSIVE AllTextualParts(_)
AllTextualParts(events) ==
    IF events = <<>> THEN <<>>
    ELSE TextualParts(Head(events)) \o AllTextualParts(Tail(events))

RECURSIVE Concatenation(_)
Concatenation(parts) ==
    IF parts = <<>> THEN EmptyStr ELSE Head(parts).text \o Concatenation(Tail(parts))

\* C13: the text accumulated from the events streamed so far is the
\* concatenation of the texts of their textual parts in emission order, and
\* that is the string query returns when the run completes normally.
C13_ReturnsTheConcatenation ==
    \A i \in Invocations :
        LET text == Concatenation(AllTextualParts(run[i].events))
        IN  /\ frame[i].pc \in {"run", "finally", "thread_exit", "hung"} =>
                  frame[i].response_text = text
            /\ (Done(i) /\ ~RunRaised(i)) => frame[i].outcome = Returned(text)

\* A run has returned the text of two events, one of them with a part
\* without text between its textual parts.
C13_Witness ==
    \E i \in Invocations :
        /\ Done(i)
        /\ run[i].events = <<Event(<<Part(Str("b")), Part(NoneStr)>>),
                              Event(<<Part(Str("a")), Part(Str("b"))>>)>>
        /\ frame[i].outcome = Returned(<<"b", "a", "b">>)

\* The modes of the map that run asynchronously or stream.
AsyncOrStreaming == {"async", "stream", "async_stream"}

\* C14: once register_operations has returned, query is advertised (under
\* the default mode) and no asynchronous or streaming mode is: every such
\* mode the parent class registered is gone from the map.
C14_OnlyQueryIsAdvertised ==
    ops.registered =>
        /\ ops.map[""].present /\ "query" \in Names(ops.map[""])
        /\ \A mode \in AsyncOrStreaming : ~ops.map[mode].present

\* The worker thread of invocation i has started and not ended.
WorkerLive(i) ==
    frame[i].pc \in {"check_runner", "set_up", "create_session", "run", "finally",
                      "thread_exit", "hung"}

\* C15: every call of query has one worker with a loop of its own, made for
\* it: not the caller's and not that of another call. The loop is open while
\* the worker runs and closed when query returns or raises, whatever the run
\* did; the loops open at any time are those of the workers still running.
C15_OwnLoopClosedOnExit ==
    /\ \A i \in Invocations :
          /\ WorkerLive(i) =>
                /\ frame[i].new_loop # 0
                /\ frame[i].loop = "open" /\ frame[i].new_loop \in loops.open
          /\ frame[i].pc \in {"joined", "done"} =>
                /\ frame[i].new_loop # 0
                /\ frame[i].loop = "closed" /\ frame[i].new_loop \notin loops.open
    /\ \A i, j \in Invocations :
          (i # j /\ frame[i].new_loop # 0) => frame[i].new_loop # frame[j].new_loop
    /\ loops.open = {frame[i].new_loop : i \in {j \in Invocations : WorkerLive(j)}}
    /\ loops.made = Cardinality({i \in Invocations : frame[i].pc # "idle"})

\* A call whose run raised has ended with its loop closed while the worker
\* of a call that started before it still runs on its open loop.
C15_Witness ==
    \E i, j \in Invocations :
        /\ Done(i) /\ RunRaised(i)
        /\ frame[i].loop = "closed"
        /\ frame[j].pc = "run"
        /\ frame[j].new_loop < frame[i].new_loop
        /\ loops.open = {frame[j].new_loop}

\* Invocation i is at a line that reads self._tmpl_attrs["runner"] (lines 37
\* and 49) or, in set_up, writes it.
ReadsRunner(i) == frame[i].pc \in {"check_runner", "create_session"}
WritesRunner(i) == frame[i].pc = "set_up"

\* C16: concurrent invocations share no mutable state: each has a session of
\* its own and a loop of its own, and none is about to write state (the
\* runner of the app) that another is about to read or write.
C16_NoSharedMutableState ==
    \A i, j \in Invocations :
        i # j =>
            /\ frame[i].session # 0 => frame[i].session # frame[j].session
            /\ frame[i].new_loop # 0 => frame[i].new_loop # frame[j].new_loop
            /\ WritesRunner(i) => ~(ReadsRunner(j) \/ WritesRunner(j))

\* C19: when the calling thread reads result_container the worker has ended
\* (its loop is closed) and has recorded exactly one outcome in it, the data
\* or the error; what query then returns or raises is read from it.
C19_OneOutcomeRecordedAtJoin ==
    \A i \in Invocations :
        frame[i].pc \in {"joined", "done"} =>
            /\ frame[i].loop = "closed"
            /\ (frame[i].result_container.data # NoneStr)
                   # (frame[i].result_container.error # NoExc)
            /\ Done(i) => frame[i].outcome = AfterJoin(frame[i].result_container)

\* C20: whatever the interleaving of concurrent invocations on an app not
\* yet set up, set_up is called at most once, and an invocation that has
\* passed the check runs with the runner set up.
C20_SetUpAtMostOnce ==
    /\ setUps <= 1
    /\ \A i \in Invocations :
          frame[i].pc \in {"create_session", "run", "finally"} => runner

\* C17: when generate_vision_image returns success, an object of the name
\* visions/{uuid}.png is in the bucket, the URL returned is
\* https://storage.googleapis.com/{project id}-oracle-visions/{that name},
\* and the same URL is under generated_image_url in the session state; the
\* object of a successful call is one that was not in the bucket before.
C17_UrlOfAFreshObject ==
    /\ [](\A i \in Invocations :
            run[i].toolRet.status = "success" =>
                \E u \in 1..uuids :
                    LET name == <<"visions/", ToString(u), ".png">>
                        url == <<"https://storage.googleapis.com/", "sandbox-456821",
                                 "-oracle-visions", "/">> \o name
                    IN  /\ name \in objects
                        /\ run[i].toolRet.url = url
                        /\ run[i].state.generated_image_url = url)
    /\ [][\A i \in Invocations :
             (run[i].call = "generate_vision_image" /\ run'[i].toolRet.status = "success") =>
                 \E name \in objects' \ objects : run'[i].toolRet.url = PublicUrl(name)]_vars

\* The second successful call has returned: two objects, the URL of the
\* second in the state of the run that made it.
C17_Witness ==
    \E i \in Invocations :
        /\ run[i].toolRet.status = "success"
        /\ Cardinality(objects) = 2
        /\ run[i].state.generated_image_url = PublicUrl(BlobName("2"))

\* C18: what get_vision_themes returns is two different labels of the seven
\* of THEMES joined by ", ", and its call changes neither the session state
\* nor anything else that is shared.
C18_TwoDistinctThemes ==
    /\ [](\A i \in Invocations :
            run[i].toolRet.status = "themes" =>
                /\ Len(THEMES) = 7
                /\ \E a, b \in DOMAIN THEMES :
                      /\ THEMES[a] # THEMES[b]
                      /\ run[i].toolRet.themes = <<THEMES[a], ", ", THEMES[b]>>)
    /\ [][\A i \in Invocations :
             (run[i].call = "get_vision_themes" /\ run'[i].call = NoCall) =>
                 /\ run'[i].state = run[i].state
                 /\ UNCHANGED <<runner, sessions, created, deleteCalls, objects, uuids, bucket>>]_vars

\* The tool has returned the first and the last label of the list.
C18_Witness ==
    \E i \in Invocations :
        /\ run[i].toolRet.status = "themes"
        /\ run[i].toolRet.themes = <<"Chaotic", ", ", "Prophetically dark">>
        /\ run[i].state = EmptyState

\* C21: generate_vision_image writes generated_image_url only once its
\* upload has returned: a URL in the session state is not empty and is that
\* of an object in the bucket; a call that returns status error leaves the
\* session state and the bucket as they were, and a call that changes the
\* state returns status success for an object it has just uploaded.
C21_WriteOnlyAfterUpload ==
    /\ [](\A i \in Invocations :
            Has(run[i].state, "generated_image_url") =>
                /\ Truthy(run[i].state.generated_image_url)
                /\ \E name \in objects : run[i].state.generated_image_url = PublicUrl(name))
    /\ [][\A i \in Invocations :
             (run[i].call = "generate_vision_image" /\ run'[i].call = NoCall) =>
                 /\ run'[i].toolRet.status = "error" =>
                       run'[i].state = run[i].state /\ objects' = objects
                 /\ run'[i].state # run[i].state =>
                       /\ run'[i].toolRet.status = "success"
                       /\ \E name \in objects' \ objects :
                             run'[i].state.generated_image_url = PublicUrl(name)]_vars

\* After an earlier run uploaded its image, the upload of this run raised:
\* the tool returned status error and the state of this run has no URL.
C21_Witness ==
    \E i \in Invocations :
        /\ run[i].toolIn = "upload_raises"
        /\ run[i].toolRet.status = "error"
        /\ ~Has(run[i].state, "generated_image_url")
        /\ Cardinality(objects) = 1

\* C22: when async_delete_session raises, after a stream that ended or one
\* that raised, query raises that one exception and returns no string.
C22_TeardownFailureIsRaised ==
    \A i \in Invocations :
        (Done(i) /\ frame[i].exc.at = "delete_session") =>
            /\ frame[i].outcome.kind = "raised"
            /\ frame[i].outcome.error = frame[i].exc
            /\ frame[i].outcome.text = NoneStr
====
